---- MODULE Spec2Model ----
(***************************************************************************)
(* Dialog state machine and session registry of the bank chat bot          *)
(* (src/app/bot/core.py), with the intent classifier's predict_intent      *)
(* (src/app/bot/nlp_engine.py) as the one collaborator whose failure       *)
(* handling lives in the source.                                           *)
(*                                                                         *)
(* Time is counted in ticks of TickSeconds seconds.  A message is the      *)
(* sequence of its characters.  A reply is a sequence of strings whose     *)
(* head names the fixed text and whose tail is the text's parameter.       *)
(***************************************************************************)
EXTENDS Integers, Sequences, FiniteSets, TLC

VARIABLES sessions, order, heap, now, last, ended, streak, pending, prev

vars == <<sessions, order, heap, now, last, ended, streak, pending, prev>>

----------------------------------------------------------------------------
(* Bounds of the model *)

MaxTicks == 2
TickSeconds == 1800
MaxObjs == 4
MaxInFlight == 2

Users == {"u1"}
PairUsers == {"u1", "u2"}
ObjIds == 1..MaxObjs

ID1 == <<"1", "2", "3", "4", "5", "6">>
ID2 == <<"6", "5", "4", "3", "2", "1">>
FiveDigits == <<"1", "2", "3", "4", "5">>
SixWithLetter == <<"1", "2", "a", "4", "5", "6">>
Empty == <<>>
(* Characters are written as one-character strings, those outside ASCII by *)
(* their code point.  Six Arabic-Indic threes.                             *)
ArabicIndicId == <<"U+0663", "U+0663", "U+0663", "U+0663", "U+0663", "U+0663">>
Messages == {ID1, ID2, FiveDigits, SixWithLetter, ArabicIndicId}
PairMessages == {ID1, SixWithLetter}
(* The answers the card-block prompt asks for, and one that is neither. *)
Yes == <<"y", "e", "s">>
No == <<"n", "o">>
Perhaps == <<"p", "e", "r", "h", "a", "p", "s">>
ConfirmMessages == {ID1, Yes, No, Perhaps}

(* The characters str.isdigit() is true of, core.py:80 and 139: the ASCII  *)
(* digits and every other character of Numeric_Type Decimal or Digit,      *)
(* 778 of them, each written as its code point.                            *)
AsciiDigits == {"0", "1", "2", "3", "4", "5", "6", "7", "8", "9"}
UnicodeDigits ==
    {"U+00B2", "U+00B3", "U+00B9", "U+0660", "U+0661", "U+0662", "U+0663",
     "U+0664", "U+0665", "U+0666", "U+0667", "U+0668", "U+0669", "U+06F0",
     "U+06F1", "U+06F2", "U+06F3", "U+06F4", "U+06F5", "U+06F6", "U+06F7",
     "U+06F8", "U+06F9", "U+07C0", "U+07C1", "U+07C2", "U+07C3", "U+07C4",
     "U+07C5", "U+07C6", "U+07C7", "U+07C8", "U+07C9", "U+0966", "U+0967",
     "U+0968", "U+0969", "U+096A", "U+096B", "U+096C", "U+096D", "U+096E",
     "U+096F", "U+09E6", "U+09E7", "U+09E8", "U+09E9", "U+09EA", "U+09EB",
     "U+09EC", "U+09ED", "U+09EE", "U+09EF", "U+0A66", "U+0A67", "U+0A68",
     "U+0A69", "U+0A6A", "U+0A6B", "U+0A6C", "U+0A6D", "U+0A6E", "U+0A6F",
     "U+0AE6", "U+0AE7", "U+0AE8", "U+0AE9", "U+0AEA", "U+0AEB", "U+0AEC",
     "U+0AED", "U+0AEE", "U+0AEF", "U+0B66", "U+0B67", "U+0B68", "U+0B69",
     "U+0B6A", "U+0B6B", "U+0B6C", "U+0B6D", "U+0B6E", "U+0B6F", "U+0BE6",
     "U+0BE7", "U+0BE8", "U+0BE9", "U+0BEA", "U+0BEB", "U+0BEC", "U+0BED",
     "U+0BEE", "U+0BEF", "U+0C66", "U+0C67", "U+0C68", "U+0C69", "U+0C6A",
     "U+0C6B", "U+0C6C", "U+0C6D", "U+0C6E", "U+0C6F", "U+0CE6", "U+0CE7",
     "U+0CE8", "U+0CE9", "U+0CEA", "U+0CEB", "U+0CEC", "U+0CED", "U+0CEE",
     "U+0CEF", "U+0D66", "U+0D67", "U+0D68", "U+0D69", "U+0D6A", "U+0D6B",
     "U+0D6C", "U+0D6D", "U+0D6E", "U+0D6F", "U+0DE6", "U+0DE7", "U+0DE8",
     "U+0DE9", "U+0DEA", "U+0DEB", "U+0DEC", "U+0DED", "U+0DEE", "U+0DEF",
     "U+0E50", "U+0E51", "U+0E52", "U+0E53", "U+0E54", "U+0E55", "U+0E56",
     "U+0E57", "U+0E58", "U+0E59", "U+0ED0", "U+0ED1", "U+0ED2", "U+0ED3",
     "U+0ED4", "U+0ED5", "U+0ED6", "U+0ED7", "U+0ED8", "U+0ED9", "U+0F20",
     "U+0F21", "U+0F22", "U+0F23", "U+0F24", "U+0F25", "U+0F26", "U+0F27",
     "U+0F28", "U+0F29", "U+1040", "U+1041", "U+1042", "U+1043", "U+1044",
     "U+1045", "U+1046", "U+1047", "U+1048", "U+1049", "U+1090", "U+1091",
     "U+1092", "U+1093", "U+1094", "U+1095", "U+1096", "U+1097", "U+1098",
     "U+1099", "U+1369", "U+136A", "U+136B", "U+136C", "U+136D", "U+136E",
     "U+136F", "U+1370", "U+1371", "U+17E0", "U+17E1", "U+17E2", "U+17E3",
     "U+17E4", "U+17E5", "U+17E6", "U+17E7", "U+17E8", "U+17E9", "U+1810",
     "U+1811", "U+1812", "U+1813", "U+1814", "U+1815", "U+1816", "U+1817",
     "U+1818", "U+1819", "U+1946", "U+1947", "U+1948", "U+1949", "U+194A",
     "U+194B", "U+194C", "U+194D", "U+194E", "U+194F", "U+19D0", "U+19D1",
     "U+19D2", "U+19D3", "U+19D4", "U+19D5", "U+19D6", "U+19D7", "U+19D8",
     "U+19D9", "U+19DA", "U+1A80", "U+1A81", "U+1A82", "U+1A83", "U+1A84",
     "U+1A85", "U+1A86", "U+1A87", "U+1A88", "U+1A89", "U+1A90", "U+1A91",
     "U+1A92", "U+1A93", "U+1A94", "U+1A95", "U+1A96", "U+1A97", "U+1A98",
     "U+1A99", "U+1B50", "U+1B51", "U+1B52", "U+1B53", "U+1B54", "U+1B55",
     "U+1B56", "U+1B57", "U+1B58", "U+1B59", "U+1BB0", "U+1BB1", "U+1BB2",
     "U+1BB3", "U+1BB4", "U+1BB5", "U+1BB6", "U+1BB7", "U+1BB8", "U+1BB9",
     "U+1C40", "U+1C41", "U+1C42", "U+1C43", "U+1C44", "U+1C45", "U+1C46",
     "U+1C47", "U+1C48", "U+1C49", "U+1C50", "U+1C51", "U+1C52", "U+1C53",
     "U+1C54", "U+1C55", "U+1C56", "U+1C57", "U+1C58", "U+1C59", "U+2070",
     "U+2074", "U+2075", "U+2076", "U+2077", "U+2078", "U+2079", "U+2080",
     "U+2081", "U+2082", "U+2083", "U+2084", "U+2085", "U+2086", "U+2087",
     "U+2088", "U+2089", "U+2460", "U+2461", "U+2462", "U+2463", "U+2464",
     "U+2465", "U+2466", "U+2467", "U+2468", "U+2474", "U+2475", "U+2476",
     "U+2477", "U+2478", "U+2479", "U+247A", "U+247B", "U+247C", "U+2488",
     "U+2489", "U+248A", "U+248B", "U+248C", "U+248D", "U+248E", "U+248F",
     "U+2490", "U+24EA", "U+24F5", "U+24F6", "U+24F7", "U+24F8", "U+24F9",
     "U+24FA", "U+24FB", "U+24FC", "U+24FD", "U+24FF", "U+2776", "U+2777",
     "U+2778", "U+2779", "U+277A", "U+277B", "U+277C", "U+277D", "U+277E",
     "U+2780", "U+2781", "U+2782", "U+2783", "U+2784", "U+2785", "U+2786",
     "U+2787", "U+2788", "U+278A", "U+278B", "U+278C", "U+278D", "U+278E",
     "U+278F", "U+2790", "U+2791", "U+2792", "U+A620", "U+A621", "U+A622",
     "U+A623", "U+A624", "U+A625", "U+A626", "U+A627", "U+A628", "U+A629",
     "U+A8D0", "U+A8D1", "U+A8D2", "U+A8D3", "U+A8D4", "U+A8D5", "U+A8D6",
     "U+A8D7", "U+A8D8", "U+A8D9", "U+A900", "U+A901", "U+A902", "U+A903",
     "U+A904", "U+A905", "U+A906", "U+A907", "U+A908", "U+A909", "U+A9D0",
     "U+A9D1", "U+A9D2", "U+A9D3", "U+A9D4", "U+A9D5", "U+A9D6", "U+A9D7",
     "U+A9D8", "U+A9D9", "U+A9F0", "U+A9F1", "U+A9F2", "U+A9F3", "U+A9F4",
     "U+A9F5", "U+A9F6", "U+A9F7", "U+A9F8", "U+A9F9", "U+AA50", "U+AA51",
     "U+AA52", "U+AA53", "U+AA54", "U+AA55", "U+AA56", "U+AA57", "U+AA58",
     "U+AA59", "U+ABF0", "U+ABF1", "U+ABF2", "U+ABF3", "U+ABF4", "U+ABF5",
     "U+ABF6", "U+ABF7", "U+ABF8", "U+ABF9", "U+FF10", "U+FF11", "U+FF12",
     "U+FF13", "U+FF14", "U+FF15", "U+FF16", "U+FF17", "U+FF18", "U+FF19",
     "U+104A0", "U+104A1", "U+104A2", "U+104A3", "U+104A4", "U+104A5",
     "U+104A6", "U+104A7", "U+104A8", "U+104A9", "U+10A40", "U+10A41",
     "U+10A42", "U+10A43", "U+10D30", "U+10D31", "U+10D32", "U+10D33",
     "U+10D34", "U+10D35", "U+10D36", "U+10D37", "U+10D38", "U+10D39",
     "U+10E60", "U+10E61", "U+10E62", "U+10E63", "U+10E64", "U+10E65",
     "U+10E66", "U+10E67", "U+10E68", "U+11052", "U+11053", "U+11054",
     "U+11055", "U+11056", "U+11057", "U+11058", "U+11059", "U+1105A",
     "U+11066", "U+11067", "U+11068", "U+11069", "U+1106A", "U+1106B",
     "U+1106C", "U+1106D", "U+1106E", "U+1106F", "U+110F0", "U+110F1",
     "U+110F2", "U+110F3", "U+110F4", "U+110F5", "U+110F6", "U+110F7",
     "U+110F8", "U+110F9", "U+11136", "U+11137", "U+11138", "U+11139",
     "U+1113A", "U+1113B", "U+1113C", "U+1113D", "U+1113E", "U+1113F",
     "U+111D0", "U+111D1", "U+111D2", "U+111D3", "U+111D4", "U+111D5",
     "U+111D6", "U+111D7", "U+111D8", "U+111D9", "U+112F0", "U+112F1",
     "U+112F2", "U+112F3", "U+112F4", "U+112F5", "U+112F6", "U+112F7",
     "U+112F8", "U+112F9", "U+11450", "U+11451", "U+11452", "U+11453",
     "U+11454", "U+11455", "U+11456", "U+11457", "U+11458", "U+11459",
     "U+114D0", "U+114D1", "U+114D2", "U+114D3", "U+114D4", "U+114D5",
     "U+114D6", "U+114D7", "U+114D8", "U+114D9", "U+11650", "U+11651",
     "U+11652", "U+11653", "U+11654", "U+11655", "U+11656", "U+11657",
     "U+11658", "U+11659", "U+116C0", "U+116C1", "U+116C2", "U+116C3",
     "U+116C4", "U+116C5", "U+116C6", "U+116C7", "U+116C8", "U+116C9",
     "U+11730", "U+11731", "U+11732", "U+11733", "U+11734", "U+11735",
     "U+11736", "U+11737", "U+11738", "U+11739", "U+118E0", "U+118E1",
     "U+118E2", "U+118E3", "U+118E4", "U+118E5", "U+118E6", "U+118E7",
     "U+118E8", "U+118E9", "U+11950", "U+11951", "U+11952", "U+11953",
     "U+11954", "U+11955", "U+11956", "U+11957", "U+11958", "U+11959",
     "U+11C50", "U+11C51", "U+11C52", "U+11C53", "U+11C54", "U+11C55",
     "U+11C56", "U+11C57", "U+11C58", "U+11C59", "U+11D50", "U+11D51",
     "U+11D52", "U+11D53", "U+11D54", "U+11D55", "U+11D56", "U+11D57",
     "U+11D58", "U+11D59", "U+11DA0", "U+11DA1", "U+11DA2", "U+11DA3",
     "U+11DA4", "U+11DA5", "U+11DA6", "U+11DA7", "U+11DA8", "U+11DA9",
     "U+16A60", "U+16A61", "U+16A62", "U+16A63", "U+16A64", "U+16A65",
     "U+16A66", "U+16A67", "U+16A68", "U+16A69", "U+16AC0", "U+16AC1",
     "U+16AC2", "U+16AC3", "U+16AC4", "U+16AC5", "U+16AC6", "U+16AC7",
     "U+16AC8", "U+16AC9", "U+16B50", "U+16B51", "U+16B52", "U+16B53",
     "U+16B54", "U+16B55", "U+16B56", "U+16B57", "U+16B58", "U+16B59",
     "U+1D7CE", "U+1D7CF", "U+1D7D0", "U+1D7D1", "U+1D7D2", "U+1D7D3",
     "U+1D7D4", "U+1D7D5", "U+1D7D6", "U+1D7D7", "U+1D7D8", "U+1D7D9",
     "U+1D7DA", "U+1D7DB", "U+1D7DC", "U+1D7DD", "U+1D7DE", "U+1D7DF",
     "U+1D7E0", "U+1D7E1", "U+1D7E2", "U+1D7E3", "U+1D7E4", "U+1D7E5",
     "U+1D7E6", "U+1D7E7", "U+1D7E8", "U+1D7E9", "U+1D7EA", "U+1D7EB",
     "U+1D7EC", "U+1D7ED", "U+1D7EE", "U+1D7EF", "U+1D7F0", "U+1D7F1",
     "U+1D7F2", "U+1D7F3", "U+1D7F4", "U+1D7F5", "U+1D7F6", "U+1D7F7",
     "U+1D7F8", "U+1D7F9", "U+1D7FA", "U+1D7FB", "U+1D7FC", "U+1D7FD",
     "U+1D7FE", "U+1D7FF", "U+1E140", "U+1E141", "U+1E142", "U+1E143",
     "U+1E144", "U+1E145", "U+1E146", "U+1E147", "U+1E148", "U+1E149",
     "U+1E2F0", "U+1E2F1", "U+1E2F2", "U+1E2F3", "U+1E2F4", "U+1E2F5",
     "U+1E2F6", "U+1E2F7", "U+1E2F8", "U+1E2F9", "U+1E950", "U+1E951",
     "U+1E952", "U+1E953", "U+1E954", "U+1E955", "U+1E956", "U+1E957",
     "U+1E958", "U+1E959", "U+1F100", "U+1F101", "U+1F102", "U+1F103",
     "U+1F104", "U+1F105", "U+1F106", "U+1F107", "U+1F108", "U+1F109",
     "U+1F10A", "U+1FBF0", "U+1FBF1", "U+1FBF2", "U+1FBF3", "U+1FBF4",
     "U+1FBF5", "U+1FBF6", "U+1FBF7", "U+1FBF8", "U+1FBF9"}
DigitChars == AsciiDigits \cup UnicodeDigits

----------------------------------------------------------------------------
(* DialogState, core.py:5-12 *)

START == "start"
AUTHENTICATION == "authentication"
MAIN_MENU == "main_menu"
PROCESSING_REQUEST == "processing"
WAITING_CONFIRMATION == "waiting_confirmation"
END == "end"
DialogState == {START, AUTHENTICATION, MAIN_MENU, PROCESSING_REQUEST,
                WAITING_CONFIRMATION, END}

None == "None"

(* Program constants *)
TimeoutMinutes == 30
ConfidenceThreshold == 40
MaxAuthAttempts == 3
ClientIdLength == 6

(* Reply texts *)
ReplyRestart == <<"restart">>
ReplyWelcome == <<"welcome">>
ReplyMenu(message) == <<"menu">> \o message
ReplyLockout == <<"lockout">>
ReplyRetry == <<"retry">>
ReplyFormatError == <<"format_error">>
ReplyReauth == <<"reauth">>
ReplyClarify == <<"clarify">>
ReplyBalance == <<"balance">>
ReplyConfirmBlock == <<"confirm_block">>
ReplyRates == <<"rates">>
ReplyProcessed == <<"processed">>
ReplyCanned(tag) == <<"canned", tag>>
ReplyFallback == <<"fallback">>
NoReply == <<>>

----------------------------------------------------------------------------
(* Python dict and str primitives *)

Put(f, k, v) == [x \in (DOMAIN f) \cup {k} |-> IF x = k THEN v ELSE f[x]]
(* del f[k]: a KeyError when k is not a key of f. *)
Del(f, k) ==
    IF k \in DOMAIN f
    THEN [raised |-> FALSE, dict |-> [x \in (DOMAIN f) \ {k} |-> f[x]]]
    ELSE [raised |-> TRUE, dict |-> f]
EmptyDict == [x \in {} |-> None]

isdigit(s) == Len(s) > 0 /\ \A i \in 1..Len(s) : s[i] \in DigitChars

----------------------------------------------------------------------------
(* UserSession, core.py:14-36 *)

(* Mutant: a new session that skips START. *)
UserSession_skips_start(user_id, t) ==
    [user_id |-> user_id,
     state |-> AUTHENTICATION,
     context |-> EmptyDict,
     last_activity |-> t,
     auth_attempts |-> 0,
     current_intent |-> None]

UserSession(user_id, t) ==
    [user_id |-> user_id,
     state |-> START,
     context |-> EmptyDict,
     last_activity |-> t,
     auth_attempts |-> 0,
     current_intent |-> None]

update_state(session, new_state, t) ==
    [session EXCEPT !.state = new_state, !.last_activity = t]

(* Mutant: the context is replaced instead of extended. *)
add_to_context_replaces(session, key, value) ==
    [session EXCEPT !.context = Put(EmptyDict, key, value)]

add_to_context(session, key, value) ==
    [session EXCEPT !.context = Put(session.context, key, value)]

is_authenticated(session) ==
    IF "authenticated" \in DOMAIN session.context
    THEN session.context["authenticated"]
    ELSE FALSE

----------------------------------------------------------------------------
(* The collaborators' outcomes.                                            *)
(* verify:   what _check_client_id answers ("accept", "reject") or that it *)
(*           fails ("raise").                                              *)
(* cls:      what the classifier pipeline does with the text.              *)
(* gateway:  whether a balance or rates lookup returns or fails.           *)
(* response: whether get_response finds canned replies for the tag, falls  *)
(*           back, or fails on an empty reply list.                        *)

Classes == {"balance_inquiry", "card_block", "exchange_rate", "greeting"}
Confidences == {39, 40}

ClassifierOutcomes ==
    {[kind |-> "preprocess_error", tag |-> None, confidence |-> 0],
     [kind |-> "pipeline_error", tag |-> None, confidence |-> 0]}
    \cup {[kind |-> "ok", tag |-> t, confidence |-> c] :
            t \in Classes, c \in Confidences}
VerifyOutcomes == {"accept", "reject", "raise"}
GatewayOutcomes == {"ok", "raise"}
ResponseOutcomes == {"canned", "fallback", "raise"}

NoCls == [kind |-> "none", tag |-> None, confidence |-> 0]
NoEnv == [verify |-> None, cls |-> NoCls, gateway |-> None, response |-> None]

(* NLPEngine.predict_intent, nlp_engine.py:76-89: preprocess_text runs     *)
(* before the try block, the pipeline inside it.                           *)
Raised == [raised |-> TRUE, tag |-> None, confidence |-> 0]
predict_intent(cls) ==
    IF cls.kind = "preprocess_error" THEN Raised
    ELSE IF cls.kind = "pipeline_error"
         THEN [raised |-> FALSE, tag |-> "unknown", confidence |-> 0]
         ELSE [raised |-> FALSE, tag |-> cls.tag, confidence |-> cls.confidence]

(* NLPEngine.get_response, nlp_engine.py:91-96 *)
get_response(intent_tag, response) ==
    IF response = "canned" THEN [raised |-> FALSE, reply |-> ReplyCanned(intent_tag)]
    ELSE IF response = "raise" THEN [raised |-> TRUE, reply |-> NoReply]
    ELSE [raised |-> FALSE, reply |-> ReplyFallback]

(* ChatBotCore._check_client_id as shipped, core.py:137-140 *)
_check_client_id(client_id) ==
    Len(client_id) = ClientIdLength /\ isdigit(client_id)

----------------------------------------------------------------------------
(* State handlers, core.py:72-135.  Each yields the session after the      *)
(* handler, the reply, whether an exception left the handler, and the      *)
(* collaborator calls made.                                                *)

Result(session, reply, calls) ==
    [session |-> session, reply |-> reply, raised |-> FALSE, calls |-> calls]
Failure(session, calls) ==
    [session |-> session, reply |-> NoReply, raised |-> TRUE, calls |-> calls]

(* Mutant: the first message leads straight to the main menu. *)
_handle_start_to_menu(session, message, env, t) ==
    Result(update_state(session, MAIN_MENU, t), ReplyWelcome, {})

_handle_start(session, message, env, t) ==
    Result(update_state(session, AUTHENTICATION, t), ReplyWelcome, {})

(* The three tests the handlers branch on: core.py:80, 95 and 111 *)
(* Mutants: the lockout one attempt late, the confidence comparison       *)
(* inverted.                                                               *)
lockout_reached_late(auth_attempts) == auth_attempts > MaxAuthAttempts
low_confidence_inverted(confidence) == confidence > ConfidenceThreshold

well_formed_id(message) == isdigit(message) /\ Len(message) = ClientIdLength
lockout_reached(auth_attempts) == auth_attempts >= MaxAuthAttempts
low_confidence(confidence) == confidence < ConfidenceThreshold

(* Mutant: the attempt is counted before the gateway is asked. *)
_handle_auth_counts_first(session, message, env, t) ==
    IF well_formed_id(message)
    THEN LET s0 == [session EXCEPT !.auth_attempts = @ + 1]
         IN IF env.verify = "raise" THEN [session |-> s0, reply |-> NoReply,
                                          raised |-> TRUE, calls |-> {"verify"}]
            ELSE IF env.verify = "accept"
            THEN [session |-> update_state(
                                 add_to_context(
                                    add_to_context(session, "client_id", message),
                                    "authenticated", TRUE),
                                 MAIN_MENU, t),
                  reply |-> ReplyMenu(message), raised |-> FALSE,
                  calls |-> {"verify"}]
            ELSE IF lockout_reached(s0.auth_attempts)
            THEN [session |-> update_state(s0, END, t), reply |-> ReplyLockout,
                  raised |-> FALSE, calls |-> {"verify"}]
            ELSE [session |-> s0, reply |-> ReplyRetry, raised |-> FALSE,
                  calls |-> {"verify"}]
    ELSE [session |-> session, reply |-> ReplyFormatError, raised |-> FALSE,
          calls |-> {}]

(* Mutant: the client id is stored before the gateway has verified it. *)
_handle_auth_stores_id_first(session, message, env, t) ==
    IF well_formed_id(message)
    THEN LET s1 == add_to_context(session, "client_id", message)
         IN IF env.verify = "raise" THEN Failure(s1, {"verify"})
            ELSE IF env.verify = "accept"
            THEN Result(update_state(add_to_context(s1, "authenticated", TRUE),
                                     MAIN_MENU, t),
                        ReplyMenu(message), {"verify"})
            ELSE LET s2 == [s1 EXCEPT !.auth_attempts = @ + 1]
                 IN IF lockout_reached(s2.auth_attempts)
                    THEN Result(update_state(s2, END, t), ReplyLockout, {"verify"})
                    ELSE Result(s2, ReplyRetry, {"verify"})
    ELSE Result(session, ReplyFormatError, {})

_handle_auth(session, message, env, t) ==
    IF well_formed_id(message)
    THEN IF env.verify = "raise" THEN Failure(session, {"verify"})
         ELSE IF env.verify = "accept"
         THEN LET s1 == add_to_context(session, "client_id", message)
                  s2 == add_to_context(s1, "authenticated", TRUE)
              IN Result(update_state(s2, MAIN_MENU, t), ReplyMenu(message),
                        {"verify"})
         ELSE LET s1 == [session EXCEPT !.auth_attempts = @ + 1]
              IN IF lockout_reached(s1.auth_attempts)
                 THEN Result(update_state(s1, END, t), ReplyLockout, {"verify"})
                 ELSE Result(s1, ReplyRetry, {"verify"})
    ELSE Result(session, ReplyFormatError, {})

(* Mutant: current_intent is recorded only once the confidence has passed *)
(* the threshold.                                                          *)
_handle_main_menu_sets_intent_late(session, message, env, t) ==
    IF ~is_authenticated(session)
    THEN Result(update_state(session, AUTHENTICATION, t), ReplyReauth, {})
    ELSE LET p == predict_intent(env.cls)
             s1 == [session EXCEPT !.current_intent = p.tag]
         IN IF p.raised THEN Failure(session, {"predict_intent"})
            ELSE IF low_confidence(p.confidence)
            THEN Result(session, ReplyClarify, {"predict_intent"})
            ELSE IF p.tag = "balance_inquiry"
            THEN IF "client_id" \notin DOMAIN s1.context
                 THEN Failure(s1, {"predict_intent"})
                 ELSE IF env.gateway = "raise"
                 THEN Failure(s1, {"predict_intent", "get_balance"})
                 ELSE Result(s1, ReplyBalance, {"predict_intent", "get_balance"})
            ELSE IF p.tag = "card_block"
            THEN Result(update_state(s1, WAITING_CONFIRMATION, t),
                        ReplyConfirmBlock, {"predict_intent"})
            ELSE IF p.tag = "exchange_rate"
            THEN IF env.gateway = "raise"
                 THEN Failure(s1, {"predict_intent", "get_rates"})
                 ELSE Result(s1, ReplyRates, {"predict_intent", "get_rates"})
            ELSE LET g == get_response(p.tag, env.response)
                 IN IF g.raised
                    THEN Failure(s1, {"predict_intent", "get_response"})
                    ELSE Result(s1, g.reply, {"predict_intent", "get_response"})

_handle_main_menu(session, message, env, t) ==
    IF ~is_authenticated(session)
    THEN Result(update_state(session, AUTHENTICATION, t), ReplyReauth, {})
    ELSE LET p == predict_intent(env.cls)
             s1 == [session EXCEPT !.current_intent = p.tag]
         IN IF p.raised THEN Failure(session, {"predict_intent"})
            ELSE IF low_confidence(p.confidence)
            THEN Result(s1, ReplyClarify, {"predict_intent"})
            ELSE IF p.tag = "balance_inquiry"
            THEN IF "client_id" \notin DOMAIN s1.context
                 THEN Failure(s1, {"predict_intent"})
                 ELSE IF env.gateway = "raise"
                 THEN Failure(s1, {"predict_intent", "get_balance"})
                 ELSE Result(s1, ReplyBalance, {"predict_intent", "get_balance"})
            ELSE IF p.tag = "card_block"
            THEN Result(update_state(s1, WAITING_CONFIRMATION, t),
                        ReplyConfirmBlock, {"predict_intent"})
            ELSE IF p.tag = "exchange_rate"
            THEN IF env.gateway = "raise"
                 THEN Failure(s1, {"predict_intent", "get_rates"})
                 ELSE Result(s1, ReplyRates, {"predict_intent", "get_rates"})
            ELSE LET g == get_response(p.tag, env.response)
                 IN IF g.raised
                    THEN Failure(s1, {"predict_intent", "get_response"})
                    ELSE Result(s1, g.reply, {"predict_intent", "get_response"})

_handle_processing(session, message, env, t) ==
    Result(update_state(session, MAIN_MENU, t), ReplyProcessed, {})

(* Mutant: END is given the authentication handler, so a locked-out user  *)
(* can go on trying.                                                       *)
state_transitions_end_retries ==
    [s \in {START, AUTHENTICATION, MAIN_MENU, PROCESSING_REQUEST, END} |->
        CASE s = START -> "_handle_start"
          [] s = AUTHENTICATION -> "_handle_auth"
          [] s = MAIN_MENU -> "_handle_main_menu"
          [] s = PROCESSING_REQUEST -> "_handle_processing"
          [] s = END -> "_handle_auth"]

(* ChatBotCore.state_transitions, core.py:45-50 *)
state_transitions ==
    [s \in {START, AUTHENTICATION, MAIN_MENU, PROCESSING_REQUEST} |->
        CASE s = START -> "_handle_start"
          [] s = AUTHENTICATION -> "_handle_auth"
          [] s = MAIN_MENU -> "_handle_main_menu"
          [] s = PROCESSING_REQUEST -> "_handle_processing"]

handler(name, session, message, env, t) ==
    CASE name = "_handle_start" -> _handle_start(session, message, env, t)
      [] name = "_handle_auth" -> _handle_auth(session, message, env, t)
      [] name = "_handle_main_menu" -> _handle_main_menu(session, message, env, t)
      [] name = "_handle_processing" -> _handle_processing(session, message, env, t)

----------------------------------------------------------------------------
(* The session registry, core.py:52-56 and 151-162.  sessions is the dict  *)
(* user_id -> reference, order its keys in the order the dict holds them   *)
(* (that of their insertion), heap the UserSession objects by reference.   *)

NewRef(h) == CHOOSE r \in ObjIds \ DOMAIN h : \A q \in ObjIds \ DOMAIN h : r <= q

get_or_create_session(reg, o, h, user_id, t) ==
    IF user_id \notin DOMAIN reg
    THEN LET r == NewRef(h)
         IN [sessions |-> Put(reg, user_id, r),
             order |-> Append(o, user_id),
             heap |-> Put(h, r, UserSession(user_id, t)),
             session |-> r,
             created |-> TRUE]
    ELSE [sessions |-> reg, order |-> o, heap |-> h, session |-> reg[user_id],
          created |-> FALSE]

(* Mutant: a session is swept when its idle time reaches the timeout. *)
to_remove_at_timeout(reg, o, h, t, timeout_minutes) ==
    LET idle(user_id) ==
            (t - h[reg[user_id]].last_activity) * TickSeconds >= timeout_minutes * 60
    IN SelectSeq(o, idle)

(* The list of core.py:154-159: the keys of the idle sessions, in the      *)
(* order the dict yields them.                                             *)
to_remove(reg, o, h, t, timeout_minutes) ==
    LET idle(user_id) ==
            (t - h[reg[user_id]].last_activity) * TickSeconds > timeout_minutes * 60
    IN SelectSeq(o, idle)

(* The loop of core.py:161-162: the keys of the list are deleted in its    *)
(* order, and the first KeyError ends the loop.                            *)
RECURSIVE DelEach(_, _)
DelEach(f, keys) ==
    IF keys = << >> THEN [raised |-> FALSE, dict |-> f]
    ELSE LET d == Del(f, Head(keys))
         IN IF d.raised THEN d ELSE DelEach(d.dict, Tail(keys))

(* Mutant: the sweep finds the idle sessions but deletes none. *)
_cleanup_old_sessions_keeps(reg, o, h, t, timeout_minutes) ==
    DelEach(reg, << >>)

_cleanup_old_sessions(reg, o, h, t, timeout_minutes) ==
    DelEach(reg, to_remove(reg, o, h, t, timeout_minutes))

(* The keys a dict holds after deletions, in the order they had. *)
Remaining(o, f) ==
    LET kept(k) == k \in DOMAIN f
    IN SelectSeq(o, kept)

(* Objects no longer referenced are reclaimed. *)
Collect(h, roots) == [r \in (DOMAIN h) \cap roots |-> h[r]]
Refs(reg) == {reg[u] : u \in DOMAIN reg}

----------------------------------------------------------------------------
(* ChatBotCore.process_message, core.py:58-70 *)

(* Mutant: the reply for a state without handler also puts the session    *)
(* back to START.                                                          *)
no_handler_restarts(session, t) ==
    Result(update_state(session, START, t), ReplyRestart, {})

(* The return of core.py:70, reached when no handler is registered. *)
no_handler(session, t) == Result(session, ReplyRestart, {})

process_message(reg, o, h, user_id, message, env, t) ==
    LET g == get_or_create_session(reg, o, h, user_id, t)
        swept == _cleanup_old_sessions(g.sessions, g.order, g.heap, t,
                                       TimeoutMinutes)
        before == g.heap[g.session]
        handled == ~swept.raised /\ before.state \in DOMAIN state_transitions
        r == IF swept.raised THEN Failure(before, {})
             ELSE IF handled
             THEN handler(state_transitions[before.state], before, message, env, t)
             ELSE no_handler(before, t)
    IN [sessions |-> swept.dict,
        order |-> Remaining(g.order, swept.dict),
        heap |-> [g.heap EXCEPT ![g.session] = r.session],
        session |-> g.session,
        created |-> g.created,
        evicted |-> (DOMAIN g.sessions) \ DOMAIN swept.dict,
        dispatched |-> IF handled THEN state_transitions[before.state] ELSE None,
        before |-> before,
        after |-> r.session,
        reply |-> r.reply,
        raised |-> r.raised,
        calls |-> r.calls]

(* The collaborator outcomes a call can consume: those of the calls the    *)
(* dispatched handler reaches.                                             *)
FollowUps(c) ==
    LET p == predict_intent(c)
        e == [NoEnv EXCEPT !.cls = c]
    IN IF p.raised \/ low_confidence(p.confidence) \/ p.tag = "card_block"
       THEN {e}
       ELSE IF p.tag \in {"balance_inquiry", "exchange_rate"}
       THEN {[e EXCEPT !.gateway = g] : g \in GatewayOutcomes}
       ELSE {[e EXCEPT !.response = r] : r \in ResponseOutcomes}

Envs(user_id, message) ==
    IF user_id \notin DOMAIN sessions THEN {NoEnv}
    ELSE LET s == heap[sessions[user_id]]
         IN IF s.state = AUTHENTICATION
            THEN {[NoEnv EXCEPT !.verify = v] : v \in VerifyOutcomes}
            ELSE IF s.state = MAIN_MENU
            THEN UNION {FollowUps(c) : c \in ClassifierOutcomes}
            ELSE {NoEnv}

(* As shipped, the gateway is the stub of core.py:137-149: it answers by   *)
(* the form of the id alone and never fails.                               *)
StubEnvs(user_id, message) ==
    {e \in Envs(user_id, message) :
        /\ e.verify \in {None, IF _check_client_id(message) THEN "accept" ELSE "reject"}
        /\ e.gateway \in {None, "ok"}}

(* The /chat endpoint, main.py:33-67: process_message, then               *)
(* get_or_create_session for the same user and, when that session has a    *)
(* current_intent, predict_intent on the same message again; any exception *)
(* becomes a 500 response.  A call of process_message that is not made     *)
(* through the endpoint has no response (NoHttp).                          *)
Http(status, intent, confidence) ==
    [status |-> status, intent |-> intent, confidence |-> confidence]
NoHttp == Http(0, None, 0)

(* main.py:46-67, p being what the process_message call of main.py:44 did *)
chat_response(p, user_id, env, t) ==
    LET g == get_or_create_session(p.sessions, p.order, p.heap, user_id, t)
        session == g.heap[g.session]
        again == predict_intent(env.cls)
        kept == [sessions |-> g.sessions, order |-> g.order, heap |-> g.heap,
                 p |-> p]
    IN IF p.raised
       THEN [sessions |-> p.sessions, order |-> p.order, heap |-> p.heap,
             p |-> p, http |-> Http(500, None, 0)]
       ELSE IF session.current_intent = None
       THEN [sessions |-> kept.sessions, order |-> kept.order,
             heap |-> kept.heap, p |-> p, http |-> Http(200, None, 0)]
       ELSE IF again.raised
       THEN [sessions |-> kept.sessions, order |-> kept.order,
             heap |-> kept.heap, p |-> p, http |-> Http(500, None, 0)]
       ELSE [sessions |-> kept.sessions, order |-> kept.order,
             heap |-> kept.heap, p |-> p,
             http |-> Http(200, again.tag, again.confidence)]

Only(S) == CHOOSE x \in S : TRUE

process_chat_message(reg, o, h, user_id, message, env, t) ==
    Only({chat_response(p, user_id, env, t) :
             p \in {process_message(reg, o, h, user_id, message, env, t)}})

(* The endpoint asks the classifier itself when the handler did not: the   *)
(* outcomes it can then meet, c being the response under e.                *)
ChatFollowUps(user_id, e, c) ==
    IF /\ ~c.p.raised
       /\ e.cls = NoCls
       /\ c.heap[c.sessions[user_id]].current_intent # None
    THEN {[e EXCEPT !.cls = k] : k \in ClassifierOutcomes}
    ELSE {e}

ChatEnvs(user_id, message) ==
    UNION {UNION {ChatFollowUps(user_id, e, c) :
                     c \in {process_chat_message(sessions, order, heap,
                                                  user_id, message, e, now)}} :
              e \in Envs(user_id, message)}

(* What a caller of process_message can observe of the call: its inputs,  *)
(* the session object it ran on before and after, and its outcome; and     *)
(* the response of the endpoint when the call was made through it.         *)
Call(user_id, message, env, p, http) ==
    [user_id |-> user_id, message |-> message, env |-> env,
     dispatched |-> p.dispatched, session |-> p.session,
     created |-> p.created, evicted |-> p.evicted, before |-> p.before,
     after |-> p.after, reply |-> p.reply, raised |-> p.raised,
     calls |-> p.calls, http |-> http]

NoCall ==
    [user_id |-> None, message |-> Empty, env |-> NoEnv, dispatched |-> None,
     session |-> 0, created |-> FALSE, evicted |-> {}, before |-> UserSession(None, 0),
     after |-> UserSession(None, 0), reply |-> NoReply, raised |-> FALSE,
     calls |-> {}, http |-> NoHttp]

(* ended: for each user whose registered session has reached END, the    *)
(* time it last did.  streak: for each user, the number of their latest    *)
(* calls in a row that ran the authentication handler on a well-formed id  *)
(* the gateway rejected.                                                   *)
InState(reg, h, st) == {u \in DOMAIN reg : h[reg[u]].state = st}

Ended(old, reg, h, t) ==
    [u \in (DOMAIN old) \cup InState(reg, h, END) |->
        IF u \in InState(reg, h, END) THEN h[reg[u]].last_activity ELSE old[u]]

Rejected(p, message, env) ==
    /\ p.dispatched = "_handle_auth"
    /\ "verify" \in p.calls
    /\ env.verify = "reject"

Streak(old, user_id, message, env, p) ==
    Put(old, user_id,
        IF Rejected(p, message, env)
        THEN (IF user_id \in DOMAIN old THEN old[user_id] ELSE 0) + 1
        ELSE 0)

ProcessMessage(user_id, message, env) ==
    \E p \in {process_message(sessions, order, heap, user_id, message, env, now)} :
       /\ sessions' = p.sessions
       /\ order' = p.order
       /\ heap' = Collect(p.heap, Refs(p.sessions))
       /\ last' = Call(user_id, message, env, p, NoHttp)
       /\ ended' = Ended(ended, p.sessions, p.heap, now)
       /\ streak' = Streak(streak, user_id, message, env, p)
       /\ UNCHANGED <<now, pending, prev>>

(* What a request to the endpoint does to the registry and the record of   *)
(* calls.                                                                  *)
ChatStep(user_id, message, env) ==
    \E c \in {process_chat_message(sessions, order, heap, user_id, message,
                                   env, now)} :
       /\ sessions' = c.sessions
       /\ order' = c.order
       /\ heap' = Collect(c.heap, Refs(c.sessions))
       /\ last' = Call(user_id, message, env, c.p, c.http)
       /\ ended' = Ended(ended, c.sessions, c.heap, now)
       /\ streak' = Streak(streak, user_id, message, env, c.p)

ProcessChatMessage(user_id, message, env) ==
    /\ ChatStep(user_id, message, env)
    /\ UNCHANGED <<now, pending, prev>>

Tick ==
    /\ now < MaxTicks
    /\ now' = now + 1
    /\ UNCHANGED <<sessions, order, heap, last, ended, streak, pending, prev>>

Init ==
    /\ sessions = EmptyDict
    /\ order = << >>
    /\ pending = {}
    /\ prev = NoCall
    /\ heap = EmptyDict
    /\ now = 0
    /\ last = NoCall
    /\ ended = EmptyDict
    /\ streak = EmptyDict

(* The texts a user is given to send.  The main-menu handler reads        *)
(* nothing of the text itself: it hands it to the classifier               *)
(* (core.py:108), whose answer env.cls stands for; there one text stands   *)
(* for all.                                                                *)
Texts(user_id, all) ==
    IF user_id \in DOMAIN sessions /\ heap[sessions[user_id]].state = MAIN_MENU
    THEN {ID1} ELSE all

StubChatEnvs(user_id, message) ==
    {e \in ChatEnvs(user_id, message) :
        /\ e.verify \in {None, IF _check_client_id(message) THEN "accept" ELSE "reject"}
        /\ e.gateway \in {None, "ok"}}

Message == \E u \in Users : \E m \in Texts(u, Messages) :
              \E env \in Envs(u, m) :
              ProcessMessage(u, m, env)
StubMessage == \E u \in Users : \E m \in Texts(u, Messages) :
                  \E env \in StubEnvs(u, m) :
                  ProcessMessage(u, m, env)

Chat == \E u \in Users : \E m \in Texts(u, Messages) :
           \E env \in ChatEnvs(u, m) :
           ProcessChatMessage(u, m, env)
StubChat == \E u \in Users : \E m \in Texts(u, Messages) :
               \E env \in StubChatEnvs(u, m) :
               ProcessChatMessage(u, m, env)

Next == Message \/ Chat \/ Tick
Spec == Init /\ [][Next]_vars

StubNext == StubMessage \/ StubChat \/ Tick
StubSpec == Init /\ [][StubNext]_vars

(* Two users, with the inputs cut down to those that reach every dialog    *)
(* state: one valid and one malformed id, a gateway that answers, and a    *)
(* classifier that recognises a card block.                                *)
PairClassifierOutcomes ==
    {[kind |-> "ok", tag |-> "card_block", confidence |-> 40]}
PairEnvs(user_id, message) ==
    {e \in Envs(user_id, message) :
        /\ e.verify \in {None, "accept", "reject"}
        /\ e.cls \in {NoCls} \cup PairClassifierOutcomes}
(* With two users the texts are varied only where a handler reads them,   *)
(* in AUTHENTICATION (core.py:80).                                         *)
PairTexts(user_id) ==
    IF user_id \in DOMAIN sessions
          /\ heap[sessions[user_id]].state = AUTHENTICATION
    THEN PairMessages ELSE {ID1}
PairChatEnvs(user_id, message) ==
    {e \in ChatEnvs(user_id, message) :
        /\ e.verify \in {None, "accept", "reject"}
        /\ e.cls \in {NoCls} \cup PairClassifierOutcomes}
PairMessage == \E u \in PairUsers : \E m \in PairTexts(u) :
                  \E env \in PairEnvs(u, m) : ProcessMessage(u, m, env)
PairChat == \E u \in PairUsers : \E m \in PairTexts(u) :
               \E env \in PairChatEnvs(u, m) : ProcessChatMessage(u, m, env)
PairNext == PairMessage \/ PairChat \/ Tick
PairSpec == Init /\ [][PairNext]_vars

(* One user who authenticates, asks for a card block and answers the      *)
(* prompt.                                                                 *)
ConfirmMessage == \E u \in Users, m \in ConfirmMessages :
                     \E env \in PairEnvs(u, m) : ProcessMessage(u, m, env)
ConfirmChat == \E u \in Users, m \in ConfirmMessages :
                  \E env \in PairChatEnvs(u, m) : ProcessChatMessage(u, m, env)
ConfirmNext == ConfirmMessage \/ ConfirmChat \/ Tick
ConfirmSpec == Init /\ [][ConfirmNext]_vars

----------------------------------------------------------------------------
(* Requests to the /chat endpoint that are in flight together, as when a  *)
(* client sends twice or retries.  main.py:34 declares the handler         *)
(* `async def` and its body (main.py:42-67) awaits nothing, so the event    *)
(* loop runs one request's handler from its first statement to its return  *)
(* before it begins another's: the requests in flight are served one       *)
(* after the other, in any order, and no statement of core.py runs while   *)
(* another call is under way.                                              *)
(*                                                                         *)
(* pending holds the requests in flight.  A request is marked overlapped   *)
(* when another was served while it was in flight and no time has passed   *)
(* since.  prev is the call served just before last when last's request    *)
(* was so marked, and NoCall otherwise.                                    *)

LoopMessages == {ID1}
Request(no, user_id, message) ==
    [no |-> no, user_id |-> user_id, message |-> message, overlapped |-> FALSE]
FreeNo == CHOOSE n \in 1..MaxInFlight : \A q \in pending : q.no # n

(* A request arrives while others may be in flight. *)
Arrive ==
    \E user_id \in Users, message \in LoopMessages :
       /\ Cardinality(pending) < MaxInFlight
       /\ pending' = pending \cup {Request(FreeNo, user_id, message)}
       /\ UNCHANGED <<sessions, order, heap, now, last, ended, streak, prev>>

(* The event loop runs the handler of one request in flight, main.py:34-67 *)
(* from beginning to end.                                                  *)
Serve ==
    \E r \in pending : \E env \in PairChatEnvs(r.user_id, r.message) :
       /\ ChatStep(r.user_id, r.message, env)
       /\ pending' = {[q EXCEPT !.overlapped = TRUE] : q \in pending \ {r}}
       /\ prev' = IF r.overlapped THEN last ELSE NoCall
       /\ UNCHANGED now

(* Time passes, for the requests in flight as well. *)
Pass ==
    /\ now < MaxTicks
    /\ now' = now + 1
    /\ pending' = {[q EXCEPT !.overlapped = FALSE] : q \in pending}
    /\ UNCHANGED <<sessions, order, heap, last, ended, streak, prev>>

LoopNext == Arrive \/ Serve \/ Pass
LoopSpec == Init /\ [][LoopNext]_vars

----------------------------------------------------------------------------
(* Vocabulary of the properties *)

WellFormed(m) == Len(m) = 6 /\ \A i \in 1..Len(m) : m[i] \in AsciiDigits
Called == last.user_id # None
Registered(u) == u \in DOMAIN sessions
SessionOf(u) == heap[sessions[u]]
ClientId(session) ==
    IF "client_id" \in DOMAIN session.context
    THEN session.context["client_id"] ELSE <<None>>
StreakOf(u) == IF u \in DOMAIN streak THEN streak[u] ELSE 0
IdleSeconds(session) == (now - session.last_activity) * TickSeconds
GatewayCalls == {"verify", "get_balance", "get_rates"}
SameAuthFields(a, b) ==
    /\ a.state = b.state
    /\ is_authenticated(a) = is_authenticated(b)
    /\ ClientId(a) = ClientId(b)
    /\ a.auth_attempts = b.auth_attempts

----------------------------------------------------------------------------
(* C1: the third of three calls in a row that ran the authentication       *)
(* handler on a well-formed id the gateway rejected leaves the session in  *)
(* END and is answered with the lockout text; the first and the second of  *)
(* such a run leave the session in AUTHENTICATION.                         *)
C1_ThreeRejectionsLockOut ==
    Called =>
        LET k == StreakOf(last.user_id)
        IN /\ k = 3 => /\ last.after.state = END
                       /\ last.reply = ReplyLockout
           /\ (k \in {1, 2} /\ last.after.auth_attempts = k) =>
                  /\ last.after.state = AUTHENTICATION
                  /\ last.reply = ReplyRetry
           /\ k <= 3

C1_Witness ==
    /\ Called
    /\ StreakOf(last.user_id) = 3
    /\ last.before.state = AUTHENTICATION
    /\ WellFormed(last.message)
    /\ last.env.verify = "reject"
    /\ last.after.state = END

(* C2 as stated: a user whose session has been in END never again has a    *)
(* conversation in another state.                                          *)
C2_EndForever ==
    \A u \in DOMAIN ended : Registered(u) => SessionOf(u).state = END

(* C2 amended: for as long as no more than the timeout has passed since a  *)
(* user's session entered END, that session stays registered, in END and   *)
(* with three attempts, whoever sends whatever message.                    *)
C2_EndUntilEvicted ==
    \A u \in DOMAIN ended :
        (now - ended[u]) * TickSeconds <= TimeoutMinutes * 60 =>
            /\ Registered(u)
            /\ SessionOf(u).state = END
            /\ SessionOf(u).auth_attempts = 3
            /\ SessionOf(u).last_activity = ended[u]

C2_Witness ==
    /\ Called
    /\ last.user_id \in DOMAIN ended
    /\ last.before.state = END
    /\ last.dispatched = None
    /\ now > ended[last.user_id]
    /\ Registered(last.user_id)
    /\ SessionOf(last.user_id).state = END

(* C3: a call for a user whose session had been idle longer than the       *)
(* timeout runs the START handler on a fresh session, is answered with the *)
(* welcome, and leaves that fresh session registered in AUTHENTICATION.    *)
C3_IdleUserStartsAfresh ==
    (Called /\ last.user_id \in last.evicted) =>
        /\ last.dispatched = "_handle_start"
        /\ last.reply = ReplyWelcome
        /\ last.after.state = AUTHENTICATION
        /\ ~is_authenticated(last.after)
        /\ last.after.auth_attempts = 0
        /\ Registered(last.user_id)
        /\ SessionOf(last.user_id) = last.after

(* C4: a well-formed id the gateway accepts, sent in AUTHENTICATION,       *)
(* authenticates the session under that id and moves it to MAIN_MENU with  *)
(* the menu reply, the attempt count untouched.                            *)
C4_AcceptedIdAuthenticates ==
    (/\ Called
     /\ last.before.state = AUTHENTICATION
     /\ WellFormed(last.message)
     /\ last.env.verify = "accept") =>
        /\ is_authenticated(last.after)
        /\ ClientId(last.after) = last.message
        /\ last.after.state = MAIN_MENU
        /\ last.reply = ReplyMenu(last.message)
        /\ last.after.auth_attempts = last.before.auth_attempts
        /\ ~last.raised

C4_Witness ==
    /\ Called
    /\ last.before.state = AUTHENTICATION
    /\ last.before.auth_attempts = 2
    /\ last.message = ID2
    /\ last.env.verify = "accept"
    /\ last.after.state = MAIN_MENU

(* C5: an input that is not exactly six ASCII digits, sent in              *)
(* AUTHENTICATION, changes nothing in the session, reaches no gateway call *)
(* and is answered with the format-error prompt.                           *)
C5_MalformedIdChangesNothing ==
    (/\ Called
     /\ last.before.state = AUTHENTICATION
     /\ ~WellFormed(last.message)) =>
        /\ SameAuthFields(last.before, last.after)
        /\ "verify" \notin last.calls
        /\ last.reply = ReplyFormatError

(* C6: a call for a user with no registered session registers one and      *)
(* returns with it in AUTHENTICATION, unauthenticated, with no attempts,   *)
(* and with the welcome reply.                                             *)
C6_FirstMessageWelcomes ==
    (Called /\ last.created) =>
        /\ Registered(last.user_id)
        /\ SessionOf(last.user_id) = last.after
        /\ last.after.state = AUTHENTICATION
        /\ ~is_authenticated(last.after)
        /\ last.after.auth_attempts = 0
        /\ last.reply = ReplyWelcome

C6_Witness ==
    /\ Called
    /\ last.created
    /\ now > 0
    /\ Registered(last.user_id)
    /\ SessionOf(last.user_id).state = AUTHENTICATION

(* C7: in MAIN_MENU a classification below the threshold leaves the state  *)
(* MAIN_MENU whatever the tag, and no gateway operation is called.         *)
LowConfidence(cls) ==
    \/ cls.kind = "pipeline_error"
    \/ cls.kind = "ok" /\ cls.confidence < 40
C7_LowConfidenceKeepsState ==
    (/\ Called
     /\ last.before.state = MAIN_MENU
     /\ LowConfidence(last.env.cls)) =>
        /\ last.after.state = MAIN_MENU
        /\ last.calls \cap GatewayCalls = {}
        /\ ~last.raised

C7_Witness ==
    /\ Called
    /\ last.before.state = MAIN_MENU
    /\ last.env.cls = [kind |-> "ok", tag |-> "card_block", confidence |-> 39]
    /\ last.after.state = MAIN_MENU

(* C8: process_message never raises: every call returns a reply.           *)
C8_NeverRaises ==
    Called => (~last.raised /\ last.reply # NoReply)

(* C9: a call in which a classifier or gateway call failed leaves the      *)
(* session's state, authentication, client id and attempt count as they    *)
(* were.                                                                   *)
CollaboratorFailed ==
    \/ last.raised
    \/ last.env.cls.kind = "pipeline_error"
C9_FailureChangesNothing ==
    (Called /\ CollaboratorFailed) => SameAuthFields(last.before, last.after)

C9_Witness ==
    /\ Called
    /\ last.raised
    /\ last.before.state = AUTHENTICATION
    /\ last.before.auth_attempts = 2
    /\ last.env.verify = "raise"
    /\ last.after.state = AUTHENTICATION

(* C10: when two requests of one user are in flight together, the calls   *)
(* they make run on the same session object, the later call starts from    *)
(* what the earlier one left (no increment of auth_attempts and no change  *)
(* of state is lost), and the session registered for the user afterwards   *)
(* is that object as the later call left it.                               *)
Overlapped == prev.user_id # None /\ prev.user_id = last.user_id
----------------------------------------------------------------------------
(* C11: a session that a handler changed is, when that process_message     *)
(* call returns, the session registered under the caller's user_id: the    *)
(* sweep has not removed it before or while the handler ran.               *)
C11_HandledSessionStaysRegistered ==
    (Called /\ last.dispatched # None /\ last.after # last.before) =>
        /\ Registered(last.user_id)
        /\ SessionOf(last.user_id) = last.after

(* C12: every process_message call that returns a reply leaves the session *)
(* it handled with last_activity equal to the time of the call, whatever   *)
(* the session's state and whether or not the state changed.               *)
C12_EveryCallRefreshesActivity ==
    [][(last' # last /\ ~last'.raised) =>
          last'.after.last_activity = now']_vars

(* C13: every session, registered or just handled, has auth_attempts       *)
(* between 0 and 3, and a session with auth_attempts = 3 is in END.        *)
AttemptsBounded(session) ==
    /\ session.auth_attempts \in 0..MaxAuthAttempts
    /\ session.auth_attempts = MaxAuthAttempts => session.state = END
C13_AttemptsBounded ==
    /\ \A r \in DOMAIN heap : AttemptsBounded(heap[r])
    /\ Called => AttemptsBounded(last.after)
C13_Witness ==
    /\ Called
    /\ last.dispatched = "_handle_auth"
    /\ last.before.auth_attempts = MaxAuthAttempts - 1
    /\ last.after.auth_attempts = MaxAuthAttempts
    /\ Registered(last.user_id)
    /\ SessionOf(last.user_id).auth_attempts = MaxAuthAttempts

(* C14: in every session, registered or just handled, the context holds a  *)
(* client_id exactly when the session is authenticated.                    *)
ClientIdIffAuthenticated(session) ==
    ("client_id" \in DOMAIN session.context) <=> is_authenticated(session)
C14_ClientIdIffAuthenticated ==
    /\ \A r \in DOMAIN heap : ClientIdIffAuthenticated(heap[r])
    /\ Called => ClientIdIffAuthenticated(last.after)
C14_Witness ==
    /\ Called
    /\ last.dispatched = "_handle_auth"
    /\ "client_id" \notin DOMAIN last.before.context
    /\ Registered(last.user_id)
    /\ is_authenticated(SessionOf(last.user_id))
    /\ ClientId(SessionOf(last.user_id)) = last.message

(* C15: a call turns a session from not authenticated to authenticated     *)
(* only if it ran the authentication handler on a session in               *)
(* AUTHENTICATION, with a message of exactly six ASCII digits that the     *)
(* gateway verified; a new session is never authenticated.                 *)
BecameAuthenticated ==
    Called /\ ~is_authenticated(last.before) /\ is_authenticated(last.after)
C15_OnlyVerifiedIdAuthenticates ==
    /\ BecameAuthenticated =>
          /\ last.before.state = AUTHENTICATION
          /\ last.dispatched = "_handle_auth"
          /\ WellFormed(last.message)
          /\ last.env.verify = "accept"
          /\ "verify" \in last.calls
    /\ (Called /\ last.created) => ~is_authenticated(last.before)

(* C16: a call that finds the session in WAITING_CONFIRMATION moves it to  *)
(* MAIN_MENU when the message is yes or no, performing the pending action  *)
(* through the gateway on yes, and leaves it in WAITING_CONFIRMATION on    *)
(* any other message.                                                      *)
C16_ConfirmationIsAnswered ==
    (Called /\ last.before.state = WAITING_CONFIRMATION) =>
        /\ last.message = Yes =>
              last.after.state = MAIN_MENU /\ last.calls \cap GatewayCalls # {}
        /\ last.message = No => last.after.state = MAIN_MENU
        /\ last.message \notin {Yes, No} =>
              last.after.state = WAITING_CONFIRMATION

(* C17: a call that finds the session in a state without registered        *)
(* handler is answered with the restart prompt, leaves every field of the  *)
(* session as it was, and calls neither the classifier nor the gateway.    *)
C17_NoHandlerChangesNothing ==
    (Called /\ last.before.state \notin DOMAIN state_transitions) =>
        /\ last.reply = ReplyRestart
        /\ ~last.raised
        /\ last.after = last.before
        /\ last.calls = {}
C17_Witness ==
    /\ Called
    /\ last.before.state = WAITING_CONFIRMATION
    /\ last.dispatched = None
    /\ is_authenticated(last.before)
    /\ last.before.current_intent = "card_block"
    /\ now > last.before.last_activity
    /\ Registered(last.user_id)
    /\ SessionOf(last.user_id) = last.before

(* C18: when the main-menu handler runs on an authenticated session and    *)
(* the classifier returns a tag, the session's current_intent is that tag, *)
(* whatever the confidence; with confidence at or above the threshold the  *)
(* session ends in WAITING_CONFIRMATION if the tag is card_block and stays *)
(* in MAIN_MENU for every other tag.                                       *)
ReturnedTag(cls) == IF cls.kind = "pipeline_error" THEN "unknown" ELSE cls.tag
ReturnedConfidence(cls) ==
    IF cls.kind = "pipeline_error" THEN 0 ELSE cls.confidence
Classified ==
    /\ Called
    /\ last.before.state = MAIN_MENU
    /\ is_authenticated(last.before)
    /\ last.env.cls.kind \in {"ok", "pipeline_error"}
C18_TagDecidesNextState ==
    Classified =>
        /\ last.after.current_intent = ReturnedTag(last.env.cls)
        /\ ReturnedConfidence(last.env.cls) >= 40 =>
              /\ last.after.state = WAITING_CONFIRMATION
                    <=> ReturnedTag(last.env.cls) = "card_block"
              /\ ReturnedTag(last.env.cls) # "card_block"
                    => last.after.state = MAIN_MENU
        /\ ReturnedConfidence(last.env.cls) < 40 => last.after.state = MAIN_MENU
C18_Witness ==
    /\ Classified
    /\ last.before.current_intent = "balance_inquiry"
    /\ last.env.cls.tag = "card_block"
    /\ last.env.cls.confidence = 40
    /\ Registered(last.user_id)
    /\ SessionOf(last.user_id).state = WAITING_CONFIRMATION
    /\ SessionOf(last.user_id).current_intent = "card_block"

(* C19: every session in MAIN_MENU or WAITING_CONFIRMATION, registered or  *)
(* just handled, is authenticated and holds a client_id; so no call is     *)
(* answered with the re-authentication prompt and the balance branch       *)
(* always finds the client_id it reads.                                    *)
MenuImpliesAuthenticated(session) ==
    session.state \in {MAIN_MENU, WAITING_CONFIRMATION} =>
        is_authenticated(session) /\ "client_id" \in DOMAIN session.context
C19_MenuImpliesAuthenticated ==
    /\ \A r \in DOMAIN heap : MenuImpliesAuthenticated(heap[r])
    /\ Called =>
          /\ MenuImpliesAuthenticated(last.before)
          /\ MenuImpliesAuthenticated(last.after)
          /\ last.reply # ReplyReauth
          /\ "get_balance" \in last.calls =>
                ClientId(last.before) # <<None>>
C19_Witness ==
    /\ Called
    /\ last.dispatched = "_handle_main_menu"
    /\ "get_balance" \in last.calls
    /\ last.reply = ReplyBalance
    /\ ClientId(last.before) = ID2
    /\ Registered(last.user_id)
    /\ SessionOf(last.user_id).state = MAIN_MENU

(* C20: a call that finds the session in END or WAITING_CONFIRMATION       *)
(* leaves its last_activity as it was; any call, by whichever user, made   *)
(* when a registered session in END or WAITING_CONFIRMATION has been idle  *)
(* longer than the timeout removes that session from the registry, where   *)
(* at most a new session of that user takes its place; and a call by a     *)
(* user with no registered session, or with such a new one, runs the START *)
(* handler on a session with auth_attempts = 0 that is not authenticated.  *)
Expired(u) ==
    /\ Registered(u)
    /\ SessionOf(u).state \in {END, WAITING_CONFIRMATION}
    /\ IdleSeconds(SessionOf(u)) > 30 * 60
Fresh(session) ==
    /\ session.state = START
    /\ session.auth_attempts = 0
    /\ ~is_authenticated(session)
CallStep == now' = now
C20_ClosedSessionExpires ==
    [][CallStep =>
          /\ last'.before.state \in {END, WAITING_CONFIRMATION} =>
                last'.after.last_activity = last'.before.last_activity
          /\ \A u \in PairUsers :
                Expired(u) =>
                    /\ u \in last'.evicted
                    /\ u \in DOMAIN sessions' =>
                          /\ Fresh(heap'[sessions'[u]])
                          /\ heap'[sessions'[u]].last_activity = now
          /\ (\/ last'.user_id \notin DOMAIN sessions
              \/ SessionOf(last'.user_id).state = START) =>
                /\ Fresh(last'.before)
                /\ last'.dispatched = "_handle_start"
                /\ last'.after.state = AUTHENTICATION]_vars
C20_Witness ==
    /\ Called
    /\ last.user_id \in DOMAIN ended
    /\ last.dispatched = "_handle_start"
    /\ last.evicted = {}
    /\ last.after.auth_attempts = 0
    /\ Registered(last.user_id)
    /\ SessionOf(last.user_id).state = AUTHENTICATION

====
